---- MODULE Spec2Model ----
(***************************************************************************)
(* A model of antsibull/tagging.py: the concurrent retrieval of the git    *)
(* tags of the collections of an Ansible release (get_collections_tags,    *)
(* _get_collection_tags, _get_tags, _normalize_tag) and the validation of  *)
(* the retrieved tag data (validate_tags).                                 *)
(*                                                                         *)
(* Strings are sequences of tokens.  The token "R" stands for the text     *)
(* "refs/tags/", "h" for the object id and tab that start a line of        *)
(* `git ls-remote`, "\n" for a line feed and "BAD" for a byte that is not  *)
(* valid UTF-8.  An optional value (str | None) is a tuple of length 0     *)
(* (None) or 1.                                                            *)
(***************************************************************************)
EXTENDS Integers, Sequences, FiniteSets, TLC

\* ------------------------------------------------------------------ bounds
MaxCollections == 2
MaxThreads == 2
MaxTagLen == 2
MaxLines == 2

\* ------------------------------------------------------- optional values
None == <<>>
Some(x) == <<x>>
IsNone(o) == o = None
Val(o) == o[1]

\* --------------------------------------------------------------- strings
NL == "\n"
StartsWith(s, p) == Len(s) >= Len(p) /\ SubSeq(s, 1, Len(p)) = p
DropPrefix(s, p) == SubSeq(s, Len(p) + 1, Len(s))
HasToken(s, c) == \E i \in 1..Len(s) : s[i] = c
SeqsUpTo(S, n) == UNION {[1..k -> S] : k \in 0..n}

\* ---------------------------------------------------------------- regexes
\* A compiled pattern "^P?(.*)$", "P(.*)" or "P.*": a literal prefix P that
\* is optional or not, followed by ".*" inside `groups` capture groups and,
\* when anchored, by "$".
TAG_VERSION_REGEX ==
    [prefix |-> <<"v">>, optional |-> TRUE, anchored |-> TRUE, groups |-> 1]

\* The pattern strings of the metadata: a pattern that does not compile, one
\* with a capture group and one without.
BadPattern == "1("
GroupPattern == "1(.*)"
PlainPattern == "1.*"

\* A compile that takes any pattern string.
compileLenient(src) ==
    CASE src = GroupPattern -> [err |-> FALSE,
            pat |-> [prefix |-> <<"1">>, optional |-> FALSE,
                     anchored |-> FALSE, groups |-> 1]]
      [] src = PlainPattern -> [err |-> FALSE,
            pat |-> [prefix |-> <<"1">>, optional |-> FALSE,
                     anchored |-> FALSE, groups |-> 0]]
      [] OTHER -> [err |-> FALSE, pat |-> TAG_VERSION_REGEX]

\* re.compile: the compiled pattern, or "re.error".
compile(src) ==
    CASE src = GroupPattern -> [err |-> FALSE,
            pat |-> [prefix |-> <<"1">>, optional |-> FALSE,
                     anchored |-> FALSE, groups |-> 1]]
      [] src = PlainPattern -> [err |-> FALSE,
            pat |-> [prefix |-> <<"1">>, optional |-> FALSE,
                     anchored |-> FALSE, groups |-> 0]]
      [] OTHER -> [err |-> TRUE, pat |-> TAG_VERSION_REGEX]

\* What ".*" followed by "$" (or by the end of the pattern) consumes of the
\* rest of the text: "." matches no line feed, "$" matches at the end and
\* before a final line feed.
DotStar(rest, anchored) ==
    LET n == Len(rest)
        firstNL == IF HasToken(rest, NL)
                   THEN CHOOSE i \in 1..n : rest[i] = NL
                                  /\ \A j \in 1..(i - 1) : rest[j] # NL
                   ELSE n + 1
    IN  IF ~anchored THEN [ok |-> TRUE, text |-> SubSeq(rest, 1, firstNL - 1)]
        ELSE IF firstNL >= n THEN [ok |-> TRUE, text |-> SubSeq(rest, 1, firstNL - 1)]
        ELSE [ok |-> FALSE, text |-> <<>>]

\* A match that takes the prefix of the pattern as often as the tag has it.
RECURSIVE matchRepeated(_, _)
matchRepeated(regex, tag) ==
    IF StartsWith(tag, regex.prefix)
    THEN matchRepeated(regex, DropPrefix(tag, regex.prefix))
    ELSE DotStar(tag, regex.anchored)

\* regex.match(tag): whether the pattern matches at the start of the tag and
\* the text of ".*".
match(regex, tag) ==
    LET with == DotStar(DropPrefix(tag, regex.prefix), regex.anchored)
        without == DotStar(tag, regex.anchored)
    IN  IF StartsWith(tag, regex.prefix) /\ with.ok THEN with
        ELSE IF regex.optional THEN without
        ELSE [ok |-> FALSE, text |-> <<>>]

\* A normalization that has no value for a tag that the pattern does not
\* match.
_normalize_tagStrict(tag, regex) ==
    LET re == IF IsNone(regex) THEN TAG_VERSION_REGEX ELSE Val(regex)
        m == match(re, tag)
    IN  IF m.ok
        THEN IF re.groups >= 1 THEN [fault |-> FALSE, value |-> m.text]
             ELSE [fault |-> TRUE, value |-> <<>>]
        ELSE [fault |-> FALSE, value |-> <<>>]

\* _normalize_tag(tag, regex): the first capture group when the pattern
\* matches, the tag itself when it does not; "IndexError" when the pattern
\* matches and has no group.
_normalize_tag(tag, regex) ==
    LET re == IF IsNone(regex) THEN TAG_VERSION_REGEX ELSE Val(regex)
        m == match(re, tag)
    IN  IF m.ok
        THEN IF re.groups >= 1 THEN [fault |-> FALSE, value |-> m.text]
             ELSE [fault |-> TRUE, value |-> <<>>]
        ELSE [fault |-> FALSE, value |-> tag]

\* ------------------------------------------------------------- git output
\* str.splitlines(): the lines of a text, without their line feeds.
RECURSIVE splitlines(_)
splitlines(s) ==
    IF s = <<>> THEN <<>>
    ELSE LET n == Len(s)
             i == IF HasToken(s, NL)
                  THEN CHOOSE k \in 1..n : s[k] = NL
                                 /\ \A j \in 1..(k - 1) : s[j] # NL
                  ELSE n + 1
         IN  <<SubSeq(s, 1, i - 1)>> \o splitlines(SubSeq(s, i + 1, n))

\* TAG_MATCHER.match(line).group(1): "^.*refs/tags/(.*)$" is greedy, the
\* group is what follows the last "refs/tags/" of the line; None when the
\* line has no "refs/tags/".
TAG_MATCHER(line) ==
    IF HasToken(line, "R")
    THEN LET i == CHOOSE k \in 1..Len(line) : line[k] = "R"
                         /\ \A j \in (k + 1)..Len(line) : line[j] # "R"
         IN  Some(SubSeq(line, i + 1, Len(line)))
    ELSE None

RECURSIVE MatchedTags(_)
MatchedTags(lines) ==
    IF lines = <<>> THEN <<>>
    ELSE LET m == TAG_MATCHER(Head(lines))
         IN  (IF IsNone(m) THEN <<>> ELSE <<Val(m)>>) \o MatchedTags(Tail(lines))

\* A fetch that raises when git fails.
_get_tagsChecked(repository, proc) ==
    IF proc.returncode # 0 \/ HasToken(proc.stdout, "BAD")
    THEN [fault |-> TRUE, tags |-> <<>>, log |-> {}]
    ELSE LET tags == splitlines(proc.stdout)
         IN  IF tags = <<>>
             THEN [fault |-> FALSE, tags |-> <<>>,
                   log |-> {<<"warning", repository, " does not have any tags">>}]
             ELSE [fault |-> FALSE, tags |-> MatchedTags(tags), log |-> {}]

\* _get_tags(repository) once the subprocess has exited with `proc`
\* (returncode, stdout): the tags it yields, what it logs, and whether
\* decoding stdout raises.
_get_tags(repository, proc) ==
    IF proc.returncode # 0
    THEN [fault |-> FALSE, tags |-> <<>>,
          log |-> {<<"error", "Failed to fetch tags for ", repository>>}]
    ELSE IF HasToken(proc.stdout, "BAD")
    THEN [fault |-> TRUE, tags |-> <<>>, log |-> {}]
    ELSE LET tags == splitlines(proc.stdout)
         IN  IF tags = <<>>
             THEN [fault |-> FALSE, tags |-> <<>>,
                   log |-> {<<"warning", repository, " does not have any tags">>}]
             ELSE [fault |-> FALSE, tags |-> MatchedTags(tags), log |-> {}]

\* ------------------------------------------------- per-collection resolver
\* CollectionTagData; collection_directory is None when the key is not set.
TagData(version, repository, tag, dir) ==
    [version |-> version, repository |-> repository, tag |-> tag,
     collection_directory |-> dir]

NoData == TagData(<<>>, None, None, None)

\* Python truth value of a str | None whose text is a string.
Truthy(o) == ~IsNone(o) /\ Val(o) # ""

\* Python truth value of a str | None whose text is a sequence of tokens.
TruthyTag(o) == ~IsNone(o) /\ Val(o) # <<>>

\* The loop without its break: the last matching tag is kept.
RECURSIVE FirstMatchNoBreak(_, _, _)
FirstMatchNoBreak(tags, regex, version) ==
    IF tags = <<>> THEN [fault |-> FALSE, tag |-> None]
    ELSE LET norm == _normalize_tag(Head(tags), regex)
             rest == FirstMatchNoBreak(Tail(tags), regex, version)
         IN  IF norm.fault \/ rest.fault THEN [fault |-> TRUE, tag |-> None]
             ELSE IF norm.value = version /\ IsNone(rest.tag)
             THEN [fault |-> FALSE, tag |-> Some(Head(tags))]
             ELSE rest

\* The loop of _get_collection_tags over the tags that _get_tags yields:
\* the first tag whose normalized form equals the version.
RECURSIVE FirstMatch(_, _, _)
FirstMatch(tags, regex, version) ==
    IF tags = <<>> THEN [fault |-> FALSE, tag |-> None]
    ELSE LET norm == _normalize_tag(Head(tags), regex)
         IN  IF norm.fault THEN [fault |-> TRUE, tag |-> None]
             ELSE IF norm.value = version
             THEN [fault |-> FALSE, tag |-> Some(Head(tags))]
             ELSE FirstMatch(Tail(tags), regex, version)

\* str() of a pattern or of None.
StrOpt(o) == IF IsNone(o) THEN "None" ELSE Val(o)

\* str() of the re.error that compiling the pattern string raised: its
\* message and position, not the pattern.
ReError(src) == "missing ), unterminated subpattern at position 1"

\* The record logged at lines 197-199: the message formats the local
\* variable tag_version_regex, which is still None when re.compile raised;
\* the fields are the error and the collection name.
InvalidRegexLog(tag_version_regex, src, name) ==
    <<"error", StrOpt(tag_version_regex), " is an invalid regex",
      "err", ReError(Val(src)), "collection", name>>

\* The beginning without the early return of line 189-191.
ResolveBeginNoReturn(version, md, name) ==
    LET data == TagData(version, md.repository, None, md.collection_directory)
    IN  IF Truthy(md.tag_version_regex) /\ compile(Val(md.tag_version_regex)).err
        THEN [returns |-> TRUE, data |-> data,
              log |-> {InvalidRegexLog(None, md.tag_version_regex, name)}]
        ELSE [returns |-> FALSE, data |-> data, log |-> {}]

\* _get_collection_tags up to its first suspension: the record with tag
\* None, and whether the coroutine returns it at once (no repository, or a
\* pattern that does not compile) or goes on to start `git ls-remote`.
ResolveBegin(version, md, name) ==
    LET data == TagData(version, md.repository, None, md.collection_directory)
        supplied == Truthy(md.tag_version_regex)
        compiled == compile(Val(md.tag_version_regex))
    IN  IF ~Truthy(md.repository)
        THEN [returns |-> TRUE, data |-> data, log |-> {}]
        ELSE IF supplied /\ compiled.err
        THEN [returns |-> TRUE, data |-> data,
              log |-> {InvalidRegexLog(None, md.tag_version_regex, name)}]
        ELSE [returns |-> FALSE, data |-> data, log |-> {}]

\* _get_collection_tags from the exit of the subprocess to its return.
ResolveEnd(version, md, proc) ==
    LET data == TagData(version, md.repository, None, md.collection_directory)
        regex == IF Truthy(md.tag_version_regex)
                 THEN Some(compile(Val(md.tag_version_regex)).pat)
                 ELSE None
        got == _get_tags(Val(md.repository), proc)
        found == FirstMatch(got.tags, regex, version)
    IN  IF got.fault
        THEN [exc |-> "UnicodeDecodeError", data |-> NoData, log |-> got.log]
        ELSE IF found.fault
        THEN [exc |-> "IndexError", data |-> NoData, log |-> got.log]
        ELSE [exc |-> "", data |-> [data EXCEPT !.tag = found.tag],
              log |-> got.log]

\* --------------------------------------------------------------- validation
\* str() of a text kept as a sequence of tokens.
RECURSIVE Str(_)
Str(t) == IF t = <<>> THEN "" ELSE Head(t) \o Str(Tail(t))

\* repr() of a collection name.
Repr(name) == "'" \o name \o "'"

UselessIgnoreMsg(name, version) ==
    "useless ignore " \o Repr(name) \o ": " \o name \o " " \o Str(version)
        \o " is properly tagged"
NoRepositoryMsg(name) ==
    name \o "'s repository is not specified at all in collection-meta.yaml"
NotTaggedMsg(name, version, repository) ==
    name \o " " \o Str(version) \o " is not tagged in " \o repository
InvalidIgnoreMsg(name) ==
    "invalid ignore " \o Repr(name) \o ": " \o name
        \o " does not match any collection"

\* A round whose test of the tag is an `if` of its own.
ItemErrorsNoElif(name, data, ignored, error_on_useless_ignores) ==
    IF ignored
    THEN IF Truthy(data.repository) /\ TruthyTag(data.tag)
            /\ error_on_useless_ignores
         THEN <<UselessIgnoreMsg(name, data.version)>>
         ELSE <<>>
    ELSE (IF ~Truthy(data.repository) THEN <<NoRepositoryMsg(name)>> ELSE <<>>)
         \o (IF ~TruthyTag(data.tag)
             THEN <<NotTaggedMsg(name, data.version,
                        IF IsNone(data.repository) THEN "None"
                        ELSE Val(data.repository))>>
             ELSE <<>>)

\* A round that tests the repository before the ignore set.
ItemErrorsRepositoryFirst(name, data, ignored, error_on_useless_ignores) ==
    IF ~Truthy(data.repository)
    THEN <<NoRepositoryMsg(name)>>
    ELSE IF ignored
    THEN IF TruthyTag(data.tag) /\ error_on_useless_ignores
         THEN <<UselessIgnoreMsg(name, data.version)>>
         ELSE <<>>
    ELSE IF ~TruthyTag(data.tag)
    THEN <<NotTaggedMsg(name, data.version, Val(data.repository))>>
    ELSE <<>>

\* A round that reports useless ignores whatever the flag is.
ItemErrorsAlwaysUseless(name, data, ignored, error_on_useless_ignores) ==
    IF ignored
    THEN IF Truthy(data.repository) /\ TruthyTag(data.tag)
         THEN <<UselessIgnoreMsg(name, data.version)>>
         ELSE <<>>
    ELSE IF ~Truthy(data.repository)
    THEN <<NoRepositoryMsg(name)>>
    ELSE IF ~TruthyTag(data.tag)
    THEN <<NotTaggedMsg(name, data.version, Val(data.repository))>>
    ELSE <<>>

\* One round of the loop of validate_tags (lines 123-135): the messages
\* appended for a collection that is or is not in the working ignore set.
ItemErrors(name, data, ignored, error_on_useless_ignores) ==
    IF ignored
    THEN IF Truthy(data.repository) /\ TruthyTag(data.tag)
            /\ error_on_useless_ignores
         THEN <<UselessIgnoreMsg(name, data.version)>>
         ELSE <<>>
    ELSE IF ~Truthy(data.repository)
    THEN <<NoRepositoryMsg(name)>>
    ELSE IF ~TruthyTag(data.tag)
    THEN <<NotTaggedMsg(name, data.version, Val(data.repository))>>
    ELSE <<>>

\* A round that leaves the matched name in the working set.
RemoveKept(ignore_set, name) == ignore_set

\* ignore_set.remove(name) (line 125).
Remove(ignore_set, name) == ignore_set \ {name}

\* The first loop of validate_tags over tag_data.items(), from a working
\* ignore set: the messages it appends and the ignore set it leaves.
RECURSIVE ValidateLoop(_, _, _)
ValidateLoop(items, ignore_set, error_on_useless_ignores) ==
    IF items = <<>> THEN [errors |-> <<>>, ignore_set |-> ignore_set]
    ELSE LET name == Head(items).name
             ignored == name \in ignore_set
             here == ItemErrors(name, Head(items).data, ignored,
                                error_on_useless_ignores)
             rest == ValidateLoop(Tail(items),
                                  IF ignored THEN Remove(ignore_set, name)
                                  ELSE ignore_set,
                                  error_on_useless_ignores)
         IN  [errors |-> here \o rest.errors, ignore_set |-> rest.ignore_set]

\* Iteration over a Python set of names: the names in the order that the
\* hashes of the running interpreter give them.
RECURSIVE IterSet(_, _)
IterSet(set, hash_order) ==
    IF hash_order = <<>> THEN <<>>
    ELSE (IF Head(hash_order) \in set THEN <<Head(hash_order)>> ELSE <<>>)
         \o IterSet(set, Tail(hash_order))

RECURSIVE InvalidIgnores(_)
InvalidIgnores(names) ==
    IF names = <<>> THEN <<>>
    ELSE <<InvalidIgnoreMsg(Head(names))>> \o InvalidIgnores(Tail(names))

\* The working copy that validate_tags makes of the caller's ignores.
WorkingCopy(ignores) == [caller |-> ignores, ignore_set |-> ignores]

\* A working set that is the caller's collection itself.
CallerAfterAliased(copy, ignore_set) == ignore_set

\* What the removals from the working copy leave in the caller's collection:
\* set(ignores) is a new object (line 121).
CallerAfter(copy, ignore_set) == copy.caller

\* A validate_tags that reports the ignores left before the collections.
validate_tagsIgnoresFirst(tag_data, ignores, error_on_useless_ignores, hash_order) ==
    LET copy == WorkingCopy(ignores)
        loop == ValidateLoop(tag_data, copy.ignore_set, error_on_useless_ignores)
        tail == IF loop.ignore_set # {} /\ error_on_useless_ignores
                THEN InvalidIgnores(IterSet(loop.ignore_set, hash_order))
                ELSE <<>>
    IN  [errors |-> tail \o loop.errors,
         ignores |-> CallerAfter(copy, loop.ignore_set)]

\* validate_tags(tag_data, ignores, error_on_useless_ignores): the list of
\* messages it returns and the caller's ignores after the call.
validate_tags(tag_data, ignores, error_on_useless_ignores, hash_order) ==
    LET copy == WorkingCopy(ignores)
        loop == ValidateLoop(tag_data, copy.ignore_set, error_on_useless_ignores)
        tail == IF loop.ignore_set # {} /\ error_on_useless_ignores
                THEN InvalidIgnores(IterSet(loop.ignore_set, hash_order))
                ELSE <<>>
    IN  [errors |-> loop.errors \o tail,
         ignores |-> CallerAfter(copy, loop.ignore_set)]

\* ------------------------------------------------------------------ inputs
AllNames == <<"foo", "bar", "baz", "qux", "quux">>
CollectionNames(k) == {AllNames[i] : i \in 1..k}
RepoOf(name) == "https://example/" \o name \o ".git"

Versions == {<<"1">>, <<"v">>}

Meta(name, repository, regex, dir) ==
    [name |-> name, repository |-> repository, tag_version_regex |-> regex,
     collection_directory |-> dir]

\* The metadata that a collection of an orchestrated run can have.
Metas(name) ==
    {Meta(name, None, None, Some("dir")),
     Meta(name, Some(RepoOf(name)), None, None),
     Meta(name, Some(RepoOf(name)), Some(BadPattern), Some("dir")),
     Meta(name, Some(RepoOf(name)), Some(GroupPattern), None)}

\* The metadata that the collection of a run of one collection can have.
AllMetas(name) ==
    {Meta(name, r, x, d) :
        r \in {None, Some(RepoOf(name))},
        x \in {None, Some(BadPattern), Some(GroupPattern), Some(PlainPattern)},
        d \in {None, Some("dir")}}

\* Output of `git ls-remote --refs --tags`.
Tags == SeqsUpTo({"v", "1"}, MaxTagLen) \ {<<>>}
Lines == {<<>>, <<"h">>, <<"h", "R", "R", "1">>} \cup {<<"h", "R">> \o t : t \in Tags}
RECURSIVE JoinLines(_)
JoinLines(ls) ==
    IF ls = <<>> THEN <<>> ELSE Head(ls) \o <<NL>> \o JoinLines(Tail(ls))
Proc(returncode, stdout) == [returncode |-> returncode, stdout |-> stdout]

\* The ways the subprocess of an orchestrated run can exit.
Procs ==
    {Proc(128, <<>>), Proc(0, <<>>), Proc(0, <<"BAD">>),
     Proc(0, JoinLines(<< <<"h", "R", "v", "1">> >>)),
     Proc(0, JoinLines(<< <<"h", "R", "1", "1">>, <<"h", "R", "v">> >>))}

\* The ways the subprocess of a run of one collection can exit.
AllProcs ==
    {Proc(128, <<>>), Proc(0, <<"BAD">>)}
        \cup {Proc(0, JoinLines(ls)) : ls \in SeqsUpTo(Lines, MaxLines)}

\* ------------------------------------------------------------------- state
VARIABLES
    pc,                        \* where the command is
    meta_data,                 \* meta_data.collections, in key order
    deps,                      \* deps_data.deps
    thread_max,                \* lib_ctx.thread_max
    hash_order,                \* iteration order of a set of names
    ignores,                   \* the caller's ignores
    error_on_useless_ignores,
    task,                      \* where the pool's task of a collection is
    future,                    \* the future that spawn_n returned for it
    semaphore,                 \* free slots of the pool
    started,                   \* subprocesses started for a collection
    fetched,                   \* what its subprocess exited with
    collection_tags,           \* the dict that line 173 builds
    tag_data,                  \* the dict that get_collections_tags returned
    log,                       \* error and warning records logged
    errors,                    \* what validate_tags returned
    status                     \* the command's return value

inputs == <<meta_data, deps, thread_max, hash_order, error_on_useless_ignores>>
pool == <<task, future, semaphore, started, fetched, log>>
vars == <<pc, inputs, ignores, pool, collection_tags, tag_data, errors, status>>

Collections == {meta_data[i].name : i \in 1..Len(meta_data)}
\* The metadata that a coroutine sees when all of them share the last one.
MetaOfLast(name) == meta_data[Len(meta_data)]

\* The metadata passed to the coroutine of a collection (line 171).
MetaOf(name) == CHOOSE md \in {meta_data[i] : i \in 1..Len(meta_data)} : md.name = name
Pending == [state |-> "pending", exc |-> "", data |-> NoData]

\* The sequences of metadata of the first k names.
MetaSeqs(k, all) ==
    {ms \in [1..k -> UNION {IF all THEN AllMetas(AllNames[i]) ELSE Metas(AllNames[i]) :
                               i \in 1..k}] :
        \A i \in 1..k : ms[i].name = AllNames[i]}

Blank ==
    /\ task = [n \in Collections |-> "none"]
    /\ future = [n \in Collections |-> Pending]
    /\ semaphore = 0
    /\ started = [n \in Collections |-> 0]
    /\ fetched = [n \in Collections |-> None]
    /\ collection_tags = <<>>
    /\ log = {}
    /\ errors = <<>>
    /\ status = -1

\* validate_tags_command is about to run on the files of a release.
Init ==
    /\ pc = "start"
    /\ \E k \in 0..MaxCollections : meta_data \in MetaSeqs(k, FALSE)
    /\ deps \in [Collections -> Versions]
    /\ thread_max \in 1..MaxThreads
    /\ hash_order = AllNames
    /\ ignores \in {{}, {AllNames[1]}}
    /\ error_on_useless_ignores = TRUE
    /\ Blank
    /\ tag_data = <<>>

\* ----------------------------------------------------------------- the pool
\* asyncio_pool.AioPool(size=thread_max): spawn_n returns a future at once and
\* schedules the coroutine, which starts when it has acquired the pool's
\* semaphore; when the coroutine ends the pool sets its result or its
\* exception on the future and releases the semaphore; leaving the
\* `async with` block joins the pool.  The event loop runs one task at a
\* time, from one await to the next.
\*
\* The tasks that hold a slot, and whether the pool is empty.
Active == {n \in Collections : task[n] \in {"active", "exec", "communicate"}}
Fetching == {n \in Collections : task[n] \in {"exec", "communicate"}}
IsEmpty == \A n \in Collections : task[n] \in {"none", "done"}

\* A pool that starts every task it is given.
CanAcquireUnbounded(n) == task[n] = "waiting"

\* May a task waiting for a slot take one.
CanAcquire(n) == task[n] = "waiting" /\ semaphore > 0

\* A pool that records a record without tag for a task that raised.
FinishSwallow(n, exc, data, logged) ==
    /\ task' = [task EXCEPT ![n] = "done"]
    /\ future' = [future EXCEPT ![n] =
                     [state |-> "result", exc |-> "", data |-> data]]
    /\ semaphore' = semaphore + 1
    /\ log' = log \cup logged

\* A pool that keeps the slot of a task that ended.
FinishNoRelease(n, exc, data, logged) ==
    /\ task' = [task EXCEPT ![n] = "done"]
    /\ future' = [future EXCEPT ![n] =
                     [state |-> IF exc = "" THEN "result" ELSE "exception",
                      exc |-> exc, data |-> data]]
    /\ semaphore' = semaphore
    /\ log' = log \cup logged

\* The task of collection n ends, with a record or with an exception: the
\* pool sets the future and releases the slot.
Finish(n, exc, data, logged) ==
    /\ task' = [task EXCEPT ![n] = "done"]
    /\ future' = [future EXCEPT ![n] =
                     [state |-> IF exc = "" THEN "result" ELSE "exception",
                      exc |-> exc, data |-> data]]
    /\ semaphore' = semaphore + 1
    /\ log' = log \cup logged

\* A comprehension that leaves out the collections whose task raised.
RECURSIVE GatherSkipRaised(_, _)
GatherSkipRaised(acc, k) ==
    IF k = Len(meta_data) THEN [state |-> "returned", items |-> acc]
    ELSE LET name == meta_data[k + 1].name
             fut == future[name]
         IN  CASE fut.state = "pending" -> [state |-> "await", items |-> acc]
               [] fut.state = "exception" -> GatherSkipRaised(acc, k + 1)
               [] OTHER -> GatherSkipRaised(
                               Append(acc, [name |-> name, data |-> fut.data]), k + 1)

GatherSkip(acc) == GatherSkipRaised(acc, Len(acc))

\* A comprehension that does not wait for the futures that are pending.
RECURSIVE GatherNoWait(_)
GatherNoWait(acc) ==
    IF Len(acc) = Len(meta_data) THEN [state |-> "returned", items |-> acc]
    ELSE LET name == meta_data[Len(acc) + 1].name
             fut == future[name]
         IN  CASE fut.state = "pending" -> [state |-> "returned", items |-> acc]
               [] fut.state = "exception" -> [state |-> "raise", items |-> acc]
               [] OTHER -> GatherNoWait(Append(acc, [name |-> name, data |-> fut.data]))

\* A comprehension that puts each new entry in front of the others.
RECURSIVE GatherPrepend(_)
GatherPrepend(acc) ==
    IF Len(acc) = Len(meta_data) THEN [state |-> "returned", items |-> acc]
    ELSE LET name == meta_data[Len(acc) + 1].name
             fut == future[name]
         IN  CASE fut.state = "pending" -> [state |-> "await", items |-> acc]
               [] fut.state = "exception" -> [state |-> "raise", items |-> acc]
               [] OTHER -> GatherPrepend(<<[name |-> name, data |-> fut.data]>> \o acc)

\* The dict comprehension of line 173 from the entries it has: it awaits the
\* futures in key order and goes on as long as they are done.
RECURSIVE Gather(_)
Gather(acc) ==
    IF Len(acc) = Len(meta_data) THEN [state |-> "returned", items |-> acc]
    ELSE LET name == meta_data[Len(acc) + 1].name
             fut == future[name]
         IN  CASE fut.state = "pending" -> [state |-> "await", items |-> acc]
               [] fut.state = "exception" -> [state |-> "raise", items |-> acc]
               [] OTHER -> Gather(Append(acc, [name |-> name, data |-> fut.data]))

\* ------------------------------------------------------------------ actions
\* validate_tags_command enters get_collections_tags, which spawns one task
\* per collection and awaits the first future (lines 61-65, 161-173).
Spawn ==
    /\ pc = "start"
    /\ task' = [n \in Collections |-> "waiting"]
    /\ semaphore' = thread_max
    /\ IF Len(meta_data) = 0
       THEN pc' = "returned"
       ELSE pc' = "await"
    /\ UNCHANGED <<inputs, ignores, future, started, fetched, log,
                   collection_tags, tag_data, errors, status>>

\* The pool gives a free slot to the waiting task of collection n.
Acquire(n) ==
    /\ CanAcquire(n)
    /\ task' = [task EXCEPT ![n] = "active"]
    /\ semaphore' = semaphore - 1
    /\ UNCHANGED <<pc, inputs, ignores, future, started, fetched, log,
                   collection_tags, tag_data, errors, status>>

\* _get_collection_tags runs to its return or to the start of the
\* subprocess (lines 180-218).
Run(n) ==
    /\ task[n] = "active"
    /\ LET begin == ResolveBegin(deps[n], MetaOf(n), n)
       IN  IF begin.returns
           THEN /\ Finish(n, "", begin.data, begin.log)
                /\ UNCHANGED started
           ELSE /\ task' = [task EXCEPT ![n] = "exec"]
                /\ started' = [started EXCEPT ![n] = @ + 1]
                /\ UNCHANGED <<future, semaphore, log>>
    /\ UNCHANGED <<pc, inputs, ignores, fetched, collection_tags, tag_data,
                   errors, status>>

\* create_subprocess_exec returns; _get_tags awaits proc.communicate()
\* (lines 218-226).
Communicate(n) ==
    /\ task[n] = "exec"
    /\ task' = [task EXCEPT ![n] = "communicate"]
    /\ UNCHANGED <<pc, inputs, ignores, future, semaphore, started, fetched,
                   log, collection_tags, tag_data, errors, status>>

\* The subprocess exits in one of the ways of procs; _get_tags and
\* _get_collection_tags run to their end (lines 226-240, 201-205).
Exit(n, procs) ==
    /\ task[n] = "communicate"
    /\ \E proc \in procs :
          /\ fetched' = [fetched EXCEPT ![n] = Some(proc)]
          /\ LET end == ResolveEnd(deps[n], MetaOf(n), proc)
             IN  Finish(n, end.exc, end.data, end.log)
    /\ UNCHANGED <<pc, inputs, ignores, started, collection_tags, tag_data,
                   errors, status>>

\* get_collections_tags resumes at line 173 when the future it awaits is
\* done; it returns the dict, or leaves the pool's block with an exception.
Resume ==
    /\ pc = "await"
    /\ future[meta_data[Len(collection_tags) + 1].name].state # "pending"
    /\ LET got == Gather(collection_tags)
       IN  /\ collection_tags' = got.items
           /\ pc' = CASE got.state = "raise" ->
                              IF IsEmpty THEN "raised" ELSE "join"
                       [] OTHER -> got.state
           /\ tag_data' = IF got.state = "returned" THEN got.items ELSE tag_data
    /\ UNCHANGED <<inputs, ignores, pool, errors, status>>

\* AioPool.__aexit__: join() returns once the pool is empty, and the
\* exception leaves get_collections_tags.
Join ==
    /\ pc = "join"
    /\ IsEmpty
    /\ pc' = "raised"
    /\ UNCHANGED <<inputs, ignores, pool, collection_tags, tag_data, errors,
                   status>>

\* _print_validation_errors on the returned tag data (lines 66-72, 83-88).
Validate ==
    /\ pc = "returned"
    /\ LET res == validate_tags(tag_data, ignores, error_on_useless_ignores,
                                hash_order)
       IN  /\ errors' = res.errors
           /\ ignores' = res.ignores
           /\ status' = IF res.errors = <<>> THEN 0 ELSE 1
    /\ pc' = "validated"
    /\ UNCHANGED <<inputs, pool, collection_tags, tag_data>>

Next ==
    \/ Spawn
    \/ \E n \in Collections : Acquire(n)
    \/ \E n \in Collections : Run(n)
    \/ \E n \in Collections : Communicate(n)
    \/ \E n \in Collections : Exit(n, Procs)
    \/ Resume
    \/ Join
    \/ Validate

Spec == Init /\ [][Next]_vars

\* ----------------------------------------------- a run that is scheduled
\* The collections of a scheduled run: without repository, or with one and
\* the default pattern.
LiveMetas(name) ==
    {Meta(name, None, None, None), Meta(name, Some(RepoOf(name)), None, None)}

\* The ways its subprocesses exit: a failure, output that is not UTF-8, a tag.
LiveProcs ==
    {Proc(128, <<>>), Proc(0, <<"BAD">>),
     Proc(0, JoinLines(<< <<"h", "R", "v", "1">> >>))}

InitLive ==
    /\ pc = "start"
    /\ \E k \in 0..MaxCollections :
          meta_data \in {ms \in [1..k -> UNION {LiveMetas(AllNames[i]) : i \in 1..k}] :
                            \A i \in 1..k : ms[i].name = AllNames[i]}
    /\ deps = [n \in Collections |-> <<"1">>]
    /\ thread_max \in 1..MaxThreads
    /\ hash_order = AllNames
    /\ ignores = {}
    /\ error_on_useless_ignores = TRUE
    /\ Blank
    /\ tag_data = <<>>

NextLive ==
    \/ Spawn
    \/ \E n \in Collections : Acquire(n)
    \/ \E n \in Collections : Run(n)
    \/ \E n \in Collections : Communicate(n)
    \/ \E n \in Collections : Exit(n, LiveProcs)
    \/ Resume
    \/ Join
    \/ Validate

\* The event loop of asyncio.run runs a callback that is ready, and every
\* subprocess that was started exits: a step that can be taken is taken.
Fairness == WF_vars(NextLive)

SpecLive == InitLive /\ [][NextLive]_vars /\ Fairness

\* ------------------------------------------------- a run of one collection
\* validate_tags_command on a release of one collection, with any metadata
\* and any output of git.
InitResolve ==
    /\ pc = "start"
    /\ meta_data \in MetaSeqs(1, TRUE)
    /\ deps \in [Collections -> Versions]
    /\ thread_max = 1
    /\ hash_order = AllNames
    /\ ignores = {}
    /\ error_on_useless_ignores = TRUE
    /\ Blank
    /\ tag_data = <<>>

NextResolve ==
    \/ Spawn
    \/ \E n \in Collections : Acquire(n)
    \/ \E n \in Collections : Run(n)
    \/ \E n \in Collections : Communicate(n)
    \/ \E n \in Collections : Exit(n, AllProcs)
    \/ Resume
    \/ Validate

SpecResolve == InitResolve /\ [][NextResolve]_vars

\* ------------------------------------------- validation of a saved tag file
RECURSIVE Reverse(_)
Reverse(q) == IF q = <<>> THEN <<>> ELSE Append(Reverse(Tail(q)), Head(q))

\* Names that an ignore can have: the collections and two other names.
IgnoreNames == CollectionNames(MaxCollections) \cup {AllNames[4], AllNames[5]}

\* The records that a tag file can hold for a collection.
FileData(name) ==
    {TagData(v, r, t, None) :
        v \in Versions,
        r \in {None, Some(RepoOf(name))},
        t \in {None, Some(<<"v", "1">>)}}

\* The tag files: records of distinct collections, in any order.
TagFiles ==
    UNION {{f \in [1..k -> [name : CollectionNames(MaxCollections),
                            data : UNION {FileData(n) : n \in CollectionNames(MaxCollections)}]] :
               /\ \A i \in 1..k : f[i].data \in FileData(f[i].name)
               /\ \A i, j \in 1..k : i # j => f[i].name # f[j].name} :
           k \in 0..MaxCollections}

\* validate_tags_file_command is about to run on a saved tag file.
InitValidate ==
    /\ pc = "file_start"
    /\ meta_data = <<>>
    /\ deps = <<>>
    /\ thread_max = 1
    /\ hash_order \in {AllNames, Reverse(AllNames)}
    /\ ignores \in SUBSET IgnoreNames
    /\ error_on_useless_ignores \in BOOLEAN
    /\ Blank
    /\ tag_data \in TagFiles

\* validate_tags_file_command (lines 43-50, 83-88).
ValidateFile ==
    /\ pc = "file_start"
    /\ LET res == validate_tags(tag_data, ignores, error_on_useless_ignores,
                                hash_order)
       IN  /\ errors' = res.errors
           /\ ignores' = res.ignores
           /\ status' = IF res.errors = <<>> THEN 0 ELSE 1
    /\ pc' = "validated"
    /\ UNCHANGED <<inputs, pool, collection_tags, tag_data>>

NextValidate == ValidateFile

SpecValidate == InitValidate /\ [][NextValidate]_vars

\* ================================================================== claims
Returned == pc \in {"returned", "validated"}
Keys(items) == {items[i].name : i \in 1..Len(items)}
Item(items, name) == CHOOSE it \in {items[i] : i \in 1..Len(items)} : it.name = name
Count(msgs, S) == Cardinality({i \in 1..Len(msgs) : msgs[i] \in S})
Absent(o) == ~Truthy(o)
AbsentTag(o) == ~TruthyTag(o)

\* The messages that validate_tags can emit about a name.
NotTaggedMsgs(name) ==
    {NotTaggedMsg(name, v, r) :
        v \in Versions, r \in {"None"} \cup {RepoOf(n) : n \in Keys(tag_data)}}
UselessIgnoreMsgs(name) == {UselessIgnoreMsg(name, v) : v \in Versions}
CollectionMsgs(name) ==
    {NoRepositoryMsg(name)} \cup NotTaggedMsgs(name) \cup UselessIgnoreMsgs(name)
MsgsAbout(name) == CollectionMsgs(name) \cup {InvalidIgnoreMsg(name)}

\* C1: when get_collections_tags returns, the keys of the mapping are exactly
\* the collection names of the metadata, with one record per name whose
\* version is the one that the dependency file declares for the name; this
\* includes the collections whose fetch failed or found no matching tag.
C1_OneRecordPerCollection ==
    Returned =>
        /\ Len(tag_data) = Len(meta_data)
        /\ Keys(tag_data) = Collections
        /\ \A i \in 1..Len(tag_data) :
               tag_data[i].data.version = deps[tag_data[i].name]

\* A run of two collections has returned; the fetch of one failed and its
\* record has no tag, the fetch of the other found no matching tag.
C1_Witness ==
    /\ pc = "returned"
    /\ Len(meta_data) = 2
    /\ \E n, m \in Collections :
          /\ n # m
          /\ fetched[n] = Some(Proc(128, <<>>))
          /\ IsNone(Item(tag_data, n).data.tag)
          /\ ~IsNone(fetched[m]) /\ Val(fetched[m]).returncode = 0
          /\ Val(fetched[m]).stdout # <<>>
          /\ IsNone(Item(tag_data, m).data.tag)

\* C2: for every collection of the results that is not ignored, validate_tags
\* emits exactly one message, the "repository is not specified" one, when the
\* repository is absent; otherwise exactly one, the "not tagged" one, when
\* the tag is absent; and no message about the collection when both are
\* present.
C2_OneMessagePerFinding ==
    pc = "validated" =>
        \A i \in 1..Len(tag_data) :
            LET name == tag_data[i].name
                data == tag_data[i].data
            IN  name \notin ignores =>
                  IF Absent(data.repository)
                  THEN /\ Count(errors, {NoRepositoryMsg(name)}) = 1
                       /\ Count(errors, MsgsAbout(name)) = 1
                  ELSE IF AbsentTag(data.tag)
                  THEN /\ Count(errors, {NotTaggedMsg(name, data.version,
                                                      Val(data.repository))}) = 1
                       /\ Count(errors, MsgsAbout(name)) = 1
                  ELSE Count(errors, MsgsAbout(name)) = 0

\* A validated file with a collection without repository and a collection
\* with repository and without tag, neither ignored, and a non-empty ignore
\* set.
C2_Witness ==
    /\ pc = "validated"
    /\ ignores # {}
    /\ \E i, j \in 1..Len(tag_data) :
          /\ tag_data[i].name \notin ignores
          /\ tag_data[j].name \notin ignores
          /\ Absent(tag_data[i].data.repository)
          /\ AbsentTag(tag_data[i].data.tag)
          /\ ~Absent(tag_data[j].data.repository)
          /\ AbsentTag(tag_data[j].data.tag)
          /\ Len(errors) >= 2

\* Is q a subsequence of r.
RECURSIVE IsSubSeq(_, _)
IsSubSeq(q, r) ==
    IF q = <<>> THEN TRUE
    ELSE IF r = <<>> THEN FALSE
    ELSE IF Head(q) = Head(r) THEN IsSubSeq(Tail(q), Tail(r))
    ELSE IsSubSeq(q, Tail(r))

\* C3: validate_tags emits no "repository is not specified" and no "not
\* tagged" message about a collection whose name is ignored, whatever its
\* repository, its tag and error_on_useless_ignores are; and when
\* error_on_useless_ignores is false, the messages for a larger ignore set are
\* among the messages emitted.
C3_IgnoredIsSilent ==
    pc = "validated" =>
        /\ \A i \in 1..Len(tag_data) :
              LET name == tag_data[i].name
              IN  name \in ignores =>
                    Count(errors, {NoRepositoryMsg(name)} \cup NotTaggedMsgs(name)) = 0
        /\ ~error_on_useless_ignores =>
              \A more \in SUBSET IgnoreNames :
                  IsSubSeq(validate_tags(tag_data, ignores \cup more, FALSE,
                                         hash_order).errors,
                           errors)

\* A validated file, error_on_useless_ignores false, with an ignored
\* collection that has no repository, an ignored one that has no tag and
\* whose ignore set can still grow.
C3_Witness ==
    /\ pc = "validated"
    /\ ~error_on_useless_ignores
    /\ \E i, j \in 1..Len(tag_data) :
          /\ {tag_data[i].name, tag_data[j].name} \subseteq ignores
          /\ Absent(tag_data[i].data.repository)
          /\ ~Absent(tag_data[j].data.repository)
          /\ AbsentTag(tag_data[j].data.tag)
    /\ errors = <<>>

\* C4: a name in ignores whose record has a repository and a tag yields
\* exactly one "useless ignore" message when error_on_useless_ignores is
\* true, and no message about the name when it is false.
C4_UselessIgnore ==
    pc = "validated" =>
        \A i \in 1..Len(tag_data) :
            LET name == tag_data[i].name
                data == tag_data[i].data
            IN  (name \in ignores /\ ~Absent(data.repository) /\ ~AbsentTag(data.tag)) =>
                  IF error_on_useless_ignores
                  THEN /\ Count(errors, {UselessIgnoreMsg(name, data.version)}) = 1
                       /\ Count(errors, UselessIgnoreMsgs(name)) = 1
                  ELSE Count(errors, MsgsAbout(name)) = 0

\* A validated file in which an ignored collection is properly tagged, with
\* error_on_useless_ignores true and the message emitted.
C4_Witness ==
    /\ pc = "validated"
    /\ error_on_useless_ignores
    /\ \E i \in 1..Len(tag_data) :
          /\ tag_data[i].name \in ignores
          /\ ~Absent(tag_data[i].data.repository)
          /\ ~AbsentTag(tag_data[i].data.tag)
          /\ errors = <<UselessIgnoreMsg(tag_data[i].name, tag_data[i].data.version)>>

\* C5: a name in ignores that is no key of the results yields exactly one
\* "invalid ignore" message when error_on_useless_ignores is true and none
\* when it is false; a name that is a key of the results never yields one.
C5_InvalidIgnore ==
    pc = "validated" =>
        /\ \A name \in ignores \ Keys(tag_data) :
              Count(errors, {InvalidIgnoreMsg(name)})
                  = IF error_on_useless_ignores THEN 1 ELSE 0
        /\ \A name \in Keys(tag_data) :
              Count(errors, {InvalidIgnoreMsg(name)}) = 0

\* A validated file, error_on_useless_ignores true, whose ignores hold two
\* names that are no collections and one that is.
C5_Witness ==
    /\ pc = "validated"
    /\ error_on_useless_ignores
    /\ Cardinality(ignores \ Keys(tag_data)) = 2
    /\ ignores \cap Keys(tag_data) # {}
    /\ Count(errors, {InvalidIgnoreMsg(n) : n \in ignores}) = 2

\* C6: a call of validate_tags leaves tag_data and the caller's ignores as
\* they were, so that a second call with them returns the same messages.
C6_NoSideEffects ==
    [][pc' = "validated" =>
          /\ tag_data' = tag_data
          /\ ignores' = ignores
          /\ validate_tags(tag_data', ignores', error_on_useless_ignores',
                           hash_order').errors = errors']_vars

\* A validated file whose ignores name a collection of the results (which
\* the working copy lost) and a name that is none.
C6_Witness ==
    /\ pc = "validated"
    /\ ignores \cap Keys(tag_data) # {}
    /\ ignores \ Keys(tag_data) # {}
    /\ error_on_useless_ignores
    /\ errors # <<>>

\* What _get_collection_tags worked with for collection n.
RegexOf(n) ==
    IF Truthy(MetaOf(n).tag_version_regex)
    THEN Some(compile(Val(MetaOf(n).tag_version_regex)).pat)
    ELSE None
Usable(n) == IsNone(RegexOf(n)) \/ MetaOf(n).tag_version_regex = Some(GroupPattern)
Yielded(n) == _get_tags(Val(MetaOf(n).repository), Val(fetched[n])).tags

\* C7: for a collection with a repository and a usable pattern, the tag of
\* the record is the raw value of the first tag, in the order of the fetch,
\* whose normalized form is equal to the version; it is absent exactly when
\* no fetched tag normalizes to the version.
C7_FirstMatchingTag ==
    \A n \in Collections :
        (Truthy(MetaOf(n).repository) /\ Usable(n)
            /\ future[n].state = "result" /\ ~IsNone(fetched[n])) =>
          LET tags == Yielded(n)
              hits == {i \in 1..Len(tags) :
                          _normalize_tag(tags[i], RegexOf(n)).value = deps[n]}
              tag == future[n].data.tag
          IN  /\ IsNone(tag) <=> hits = {}
              /\ hits # {} =>
                    \E i \in hits : /\ tag = Some(tags[i])
                                     /\ \A j \in hits : i <= j

\* The fetch returned two different tags that both normalize to the version,
\* and the record has the first.
C7_Witness ==
    \E n \in Collections :
        /\ future[n].state = "result"
        /\ fetched[n] = Some(Proc(0, JoinLines(<< <<"h", "R", "v", "1">>,
                                                  <<"h", "R", "1">> >>)))
        /\ deps[n] = <<"1">>
        /\ IsNone(RegexOf(n))
        /\ future[n].data.tag = Some(<<"v", "1">>)

\* C8: no subprocess is ever started for a collection whose repository is
\* absent, its record has no tag whatever the declared version is, and in
\* every returned record an absent repository goes with an absent tag.
C8_NoRepositoryNoFetch ==
    /\ \A n \in Collections :
          Absent(MetaOf(n).repository) =>
              /\ started[n] = 0
              /\ n \notin Fetching
              /\ IsNone(fetched[n])
              /\ future[n].state = "result" => IsNone(future[n].data.tag)
    /\ \A i \in 1..Len(tag_data) :
          Absent(tag_data[i].data.repository) => IsNone(tag_data[i].data.tag)

\* A run has returned the records of a collection without repository, which
\* never had a subprocess, and of a collection whose tag was found.
C8_Witness ==
    /\ pc = "returned"
    /\ \E n, m \in Collections :
          /\ Absent(MetaOf(n).repository)
          /\ started[n] = 0
          /\ Item(tag_data, n).data = TagData(deps[n], None, None, Some("dir"))
          /\ started[m] = 1
          /\ ~IsNone(Item(tag_data, m).data.tag)

\* The fetch of collection n failed or found the repository without tags.
FetchFailed(n) ==
    /\ ~IsNone(fetched[n])
    /\ \/ Val(fetched[n]).returncode # 0
       \/ splitlines(Val(fetched[n]).stdout) = <<>>

\* C9 as stated: a fetch that exits non-zero or without output lines yields
\* no tags and raises nothing, the resolution ends with a record without
\* tag, and validation reports the collection as not tagged.
C9_Original ==
    \A n \in Collections :
        FetchFailed(n) =>
            /\ Yielded(n) = <<>>
            /\ future[n].state = "result"
            /\ IsNone(future[n].data.tag)
            /\ pc = "validated" =>
                  Count(errors, {NotTaggedMsg(n, deps[n], RepoOf(n))}) = 1

\* C9: a fetch that exits non-zero or without output lines yields no tags
\* and raises nothing, the resolution ends with a record without tag, and
\* validation reports the collection as not tagged unless its name is
\* ignored.
C9_FailedFetchIsNotTagged ==
    \A n \in Collections :
        FetchFailed(n) =>
            /\ Yielded(n) = <<>>
            /\ future[n].state = "result"
            /\ IsNone(future[n].data.tag)
            /\ (pc = "validated" /\ n \notin ignores) =>
                  Count(errors, {NotTaggedMsg(n, deps[n], RepoOf(n))}) = 1

\* A validated run in which git failed for one collection and printed
\* nothing for another, both reported as not tagged.
C9_Witness ==
    /\ pc = "validated"
    /\ \E n, m \in Collections \ ignores :
          /\ fetched[n] = Some(Proc(128, <<>>))
          /\ fetched[m] = Some(Proc(0, <<>>))
          /\ Count(errors, {NotTaggedMsg(n, deps[n], RepoOf(n))}) = 1
          /\ Count(errors, {NotTaggedMsg(m, deps[m], RepoOf(m))}) = 1

\* C10: the resolutions that have started and not finished, and so the
\* subprocesses in flight, are never more than thread_max; the slots taken
\* and the free slots add up to thread_max.
C10_PoolBound ==
    /\ Cardinality(Active) <= thread_max
    /\ Cardinality(Fetching) <= thread_max
    /\ pc # "start" => semaphore + Cardinality(Active) = thread_max

\* More collections than slots: every slot is taken by a running subprocess
\* and a resolution is waiting for one.
C10_Witness ==
    /\ Len(meta_data) > thread_max
    /\ Cardinality(Fetching) = thread_max
    /\ semaphore = 0
    /\ \E n \in Collections : task[n] = "waiting"

\* C11: get_collections_tags returns its mapping only when every resolution
\* has completed: at the return, and when validation runs, no resolution is
\* waiting or running and no future is pending.
C11_Barrier ==
    Returned =>
        /\ \A n \in Collections : task[n] = "done" /\ future[n].state = "result"
        /\ Active = {}
        /\ semaphore = thread_max

\* A validated run of two collections that shared one slot, each with a
\* subprocess of its own.
C11_Witness ==
    /\ pc = "validated"
    /\ Len(meta_data) = 2
    /\ thread_max = 1
    /\ \A n \in Collections : started[n] = 1 /\ task[n] = "done"

\* The resolution of collection n met a fault that the code does not handle.
Faulted(n) ==
    /\ ~IsNone(fetched[n])
    /\ ResolveEnd(deps[n], MetaOf(n), Val(fetched[n])).exc # ""

\* C12: when a resolution fails with an unexpected fault, the fault is kept
\* as the exception of its future, get_collections_tags returns no mapping
\* and nothing is validated; the command ends raising only because of such a
\* fault.
C12_FaultPropagates ==
    /\ \A n \in Collections :
          Faulted(n) =>
              /\ future[n].state = "exception"
              /\ n \notin Keys(collection_tags)
              /\ ~Returned
              /\ tag_data = <<>> /\ errors = <<>> /\ status = -1
    /\ pc \in {"join", "raised"} => \E n \in Collections : Faulted(n)

\* The run has raised the fault of one collection after the resolution of
\* another collection completed with its tag.
C12_Witness ==
    /\ pc = "raised"
    /\ \E n, m \in Collections :
          /\ Faulted(n)
          /\ future[n].exc = "UnicodeDecodeError"
          /\ future[m].state = "result"
          /\ ~IsNone(future[m].data.tag)

\* Collection n has a repository and a pattern that does not compile.
BadRegex(n) ==
    /\ Truthy(MetaOf(n).repository)
    /\ Truthy(MetaOf(n).tag_version_regex)
    /\ Val(MetaOf(n).tag_version_regex) = BadPattern

\* C13: for a collection whose pattern does not compile no subprocess is
\* started, its resolution raises nothing and ends with a record without
\* tag that has the version, the repository and the collection directory.
C13_BadRegexNoFetch ==
    \A n \in Collections :
        BadRegex(n) =>
            /\ started[n] = 0 /\ n \notin Fetching /\ IsNone(fetched[n])
            /\ future[n].state # "exception"
            /\ task[n] = "done" =>
                  /\ future[n].state = "result"
                  /\ future[n].data = TagData(deps[n], MetaOf(n).repository, None,
                                              MetaOf(n).collection_directory)

\* A run has returned the record of a collection whose pattern does not
\* compile, its collection directory filled, and the tag found for another
\* collection.
C13_Witness ==
    /\ pc = "returned"
    /\ \E n, m \in Collections :
          /\ BadRegex(n)
          /\ Item(tag_data, n).data
                = TagData(deps[n], Some(RepoOf(n)), None, Some("dir"))
          /\ started[m] = 1
          /\ ~IsNone(Item(tag_data, m).data.tag)

\* The texts of a log record.
Texts(rec) == {rec[i] : i \in 1..Len(rec)}

\* C14: when the pattern of a collection does not compile, the error logged
\* has the name of the collection and the pattern string of the metadata.
C14_LogNamesPattern ==
    \A n \in Collections :
        (BadRegex(n) /\ task[n] = "done") =>
            \E rec \in log :
                /\ rec[1] = "error"
                /\ n \in Texts(rec)
                /\ \E t \in Texts(rec) : t \in {BadPattern, BadPattern \o " is an invalid regex"}

\* The record that _get_collection_tags makes of the version, the metadata
\* and the fetch output of the i-th collection alone.
OwnRecord(i) ==
    LET n == meta_data[i].name
        begin == ResolveBegin(deps[n], meta_data[i], n)
    IN  IF begin.returns THEN begin.data
        ELSE ResolveEnd(deps[n], meta_data[i], Val(fetched[n])).data

\* C15: the record of a collection is a function of its own version,
\* metadata and fetch output, in every interleaving and for every pool size:
\* the future of the collection and the entry returned for it hold that
\* record, whatever the other collections are and do.
C15_OwnInputsOnly ==
    \A i \in 1..Len(meta_data) :
        LET n == meta_data[i].name
            own == OwnRecord(i)
        IN  /\ future[n].state = "result" => future[n].data = own
            /\ Returned => Item(tag_data, n).data = own

\* A run has returned the tag of one collection while the fetch of the other
\* failed, the two sharing one slot.
C15_Witness ==
    /\ pc = "returned"
    /\ thread_max = 1
    /\ \E n, m \in Collections :
          /\ fetched[m] = Some(Proc(128, <<>>))
          /\ fetched[n] = Some(Proc(0, JoinLines(<< <<"h", "R", "v", "1">> >>)))
          /\ Item(tag_data, n).data.tag = Some(<<"v", "1">>)
          /\ Item(tag_data, n).data.repository = Some(RepoOf(n))

\* Every resolution that waits for a slot of the pool obtains one.
EveryUnitGetsASlot ==
    \A n \in CollectionNames(MaxCollections) :
        (n \in Collections /\ task[n] = "waiting")
            ~> (n \in Collections /\ task[n] # "waiting")

\* C16 as stated: under fair scheduling, when every subprocess exits, every
\* queued resolution obtains a slot and get_collections_tags returns.
C16_Original == EveryUnitGetsASlot /\ <>Returned

\* C16: under fair scheduling, when every subprocess exits, for every pool
\* size and number of collections every queued resolution obtains a slot and
\* get_collections_tags ends: it returns, or it raises the fault of a
\* resolution once the pool is empty; it returns when no resolution faults.
C16_Progress ==
    /\ EveryUnitGetsASlot
    /\ <>(Returned \/ pc = "raised")
    /\ <>(Returned \/ \E n \in Collections : future[n].state = "exception")
    /\ [](pc = "raised" => IsEmpty)

\* Two resolutions with a subprocess each have shared the one slot of the
\* pool, and get_collections_tags has returned.
C16_Witness ==
    /\ pc = "returned"
    /\ thread_max = 1
    /\ Len(meta_data) = 2
    /\ \A n \in Collections : started[n] = 1 /\ future[n].state = "result"
    /\ semaphore = 1

\* C17: the keys of the mapping that get_collections_tags returns are in the
\* order of the collections of the metadata, and so are the entries it has
\* gathered at any moment, whatever futures are done by then.
C17_KeyOrder ==
    /\ Len(collection_tags) <= Len(meta_data)
    /\ \A i \in 1..Len(collection_tags) :
          collection_tags[i].name = meta_data[i].name
    /\ Returned =>
          /\ Len(tag_data) = Len(meta_data)
          /\ \A i \in 1..Len(tag_data) : tag_data[i].name = meta_data[i].name

\* A run of two collections and two slots has returned; the first collection
\* needed a subprocess, the second has no repository and needed none.
C17_Witness ==
    /\ pc = "returned"
    /\ thread_max = 2
    /\ Len(meta_data) = 2
    /\ started[meta_data[1].name] = 1
    /\ started[meta_data[2].name] = 0
    /\ Absent(meta_data[2].repository)
    /\ tag_data[1].name = meta_data[1].name
    /\ tag_data[2].name = meta_data[2].name

\* The invalid-ignore messages, the messages that the loop can append for
\* the j-th collection of the results, and the place of a message: the index
\* of its collection, the length of the results plus one for an
\* invalid-ignore message, 0 for any other text.
InvalidIgnoreMsgs == {InvalidIgnoreMsg(n) : n \in IgnoreNames}
MsgsOf(j) ==
    LET name == tag_data[j].name
        data == tag_data[j].data
    IN  {NoRepositoryMsg(name),
         NotTaggedMsg(name, data.version, StrOpt(data.repository)),
         UselessIgnoreMsg(name, data.version)}
PlaceOf(msg) ==
    IF msg \in InvalidIgnoreMsgs THEN Len(tag_data) + 1
    ELSE IF \E j \in 1..Len(tag_data) : msg \in MsgsOf(j)
    THEN CHOOSE j \in 1..Len(tag_data) : msg \in MsgsOf(j)
    ELSE 0

\* C18: the list that validate_tags returns is the per-collection messages,
\* in the order of the results and at most one for a collection, followed by
\* the invalid-ignore messages.
C18_MessageOrder ==
    pc = "validated" =>
        LET place == [i \in 1..Len(errors) |-> PlaceOf(errors[i])]
        IN  /\ \A i \in 1..Len(errors) : place[i] > 0
            /\ \A i \in 1..(Len(errors) - 1) :
                  \/ place[i] < place[i + 1]
                  \/ place[i] = Len(tag_data) + 1 /\ place[i + 1] = Len(tag_data) + 1

\* A validated file with a message for each of two collections and an
\* invalid-ignore message after them.
C18_Witness ==
    /\ pc = "validated"
    /\ Len(tag_data) = 2
    /\ Len(errors) = 3
    /\ errors[1] \in MsgsOf(1)
    /\ errors[2] \in MsgsOf(2)
    /\ errors[3] \in InvalidIgnoreMsgs

\* The tags that the fetch of collection n yielded, when it yielded any.
FetchedTags(n) ==
    IF /\ Truthy(MetaOf(n).repository) /\ ~IsNone(fetched[n])
       /\ ~_get_tags(Val(MetaOf(n).repository), Val(fetched[n])).fault
    THEN Yielded(n)
    ELSE <<>>

\* C19: for every tag t that a fetch yields, _normalize_tag(t, None) is t
\* without its first "v" when t starts with one and t itself when not, and
\* normalizing the result again changes nothing when the result does not
\* start with "v".
C19_StripsOneV ==
    \A n \in Collections :
        \A i \in 1..Len(FetchedTags(n)) :
            LET t == FetchedTags(n)[i]
                r == _normalize_tag(t, None)
            IN  /\ ~r.fault
                /\ r.value = IF StartsWith(t, <<"v">>) THEN Tail(t) ELSE t
                /\ ~StartsWith(r.value, <<"v">>) =>
                      _normalize_tag(r.value, None).value = r.value

\* A fetch yielded the tag "vv" for a collection of version "v" with the
\* default pattern, and the tag is recorded: one "v" was removed.
C19_Witness ==
    \E n \in Collections :
        /\ IsNone(MetaOf(n).tag_version_regex)
        /\ deps[n] = <<"v">>
        /\ fetched[n] = Some(Proc(0, JoinLines(<< <<"h", "R", "v", "v">> >>)))
        /\ future[n].state = "result"
        /\ future[n].data.tag = Some(<<"v", "v">>)

\* The pattern in use for collection n, and the value that line 202 compares
\* with the version for a tag.
PatternOf(n) == IF IsNone(RegexOf(n)) THEN TAG_VERSION_REGEX ELSE Val(RegexOf(n))
Compared(n, t) ==
    IF match(PatternOf(n), t).ok THEN match(PatternOf(n), t).text ELSE t

\* C20: _normalize_tag returns a tag that the pattern in use does not match
\* as it is and raises nothing, and the first capture group of a pattern
\* that matches; a fetched tag that the pattern does not match and that is
\* equal to the version is recorded as the tag, unless a tag before it was.
C20_UnmatchedTagUnchanged ==
    \A n \in Collections :
        (~IsNone(RegexOf(n)) => ~compile(Val(MetaOf(n).tag_version_regex)).err) =>
        \A i \in 1..Len(FetchedTags(n)) :
            LET t == FetchedTags(n)[i]
                m == match(PatternOf(n), t)
                r == _normalize_tag(t, RegexOf(n))
            IN  /\ ~m.ok => ~r.fault /\ r.value = t
                /\ (m.ok /\ PatternOf(n).groups >= 1) =>
                      ~r.fault /\ r.value = m.text
                /\ (~m.ok /\ t = deps[n] /\ future[n].state = "result") =>
                      /\ ~IsNone(future[n].data.tag)
                      /\ (\A j \in 1..(i - 1) :
                              Compared(n, FetchedTags(n)[j]) # deps[n])
                            => future[n].data.tag = Some(t)

\* With the pattern "1(.*)" and the version "v", the fetch yielded "11",
\* whose capture group "1" is not the version, and "v", which the pattern
\* does not match: "v" is the tag of the record.
C20_Witness ==
    \E n \in Collections :
        /\ MetaOf(n).tag_version_regex = Some(GroupPattern)
        /\ deps[n] = <<"v">>
        /\ fetched[n] = Some(Proc(0, JoinLines(<< <<"h", "R", "1", "1">>,
                                                  <<"h", "R", "v">> >>)))
        /\ future[n].state = "result"
        /\ future[n].data.tag = Some(<<"v">>)

====
